---- MODULE Spec2Model ----
(***************************************************************************)
(* Clipboard-history enrichment: the background OCR indexer                *)
(* (plugins/clipboard/ocr-indexer.py) and the interactive handler          *)
(* (plugins/clipboard/handler.py), as processes sharing a cache directory  *)
(* (lock file, OCR index file, one thumbnail file per entry hash) and the  *)
(* external clipboard history.                                             *)
(*                                                                         *)
(* One step of a process is one access to shared state (a file-system      *)
(* call, a listing or decode of the history, a process-table probe); the   *)
(* local computation that follows it is part of the same step.             *)
(* Path.write_text / write_bytes is open-with-truncate followed by a write *)
(* through the descriptor, so it takes two steps and the empty file is     *)
(* visible in between.                                                     *)
(***************************************************************************)
EXTENDS Integers, Sequences, FiniteSets, TLC

(***************************************************************************)
(* Bounds of the model.  A behaviour is explored in one scene: "race" has  *)
(* RaceCoords coordinator processes and a history of at most RaceLines     *)
(* lines, "solo" has SoloCoords coordinators and SoloLines lines.  Every   *)
(* scene has the interactive handler and the clipboard manager.  The scene *)
(* "rerun" is "race" with the bookkeeping of completed runs (last, after)  *)
(* switched on.  "bulk" starts from a history of up to BulkLines lines     *)
(* whose thumbnails exist, "files" from every kind of index file, and      *)
(* "match" is one call of fuzzy_match.                                     *)
(***************************************************************************)
RaceCoords == 2
RaceLines == 1
SoloCoords == 1
SoloLines == 2
\* the scene "bulk": a long history, with more OCR-worthy images than one run
\* takes
BulkLines == 42
\* the scene "lost": one coordinator and a history of three images, two of
\* them OCR-worthy, with their thumbnails and one OCR record in the cache
LostLines == 3
Scenes == {"race", "solo"}
CoordsOf(sc) == IF sc \in {"solo", "bulk", "spawn", "lost"} THEN 1..SoloCoords ELSE 1..RaceCoords
MaxLinesOf(sc) ==
  IF sc \in {"solo", "spawn"} THEN SoloLines
  ELSE IF sc = "bulk" THEN BulkLines
  ELSE IF sc = "lost" THEN LostLines
  ELSE RaceLines
Max(a, b) == IF a >= b THEN a ELSE b
NCoord == Max(RaceCoords, SoloCoords)
MaxLines == Max(RaceLines, SoloLines)

(***************************************************************************)
(* Program constants (ocr-indexer.py:25-28)                                *)
(***************************************************************************)
MAX_IMAGES_TO_OCR == 20
MIN_IMAGE_WIDTH == 100
MIN_IMAGE_HEIGHT == 50
MAX_THUMB_SIZE == 256

Coords == 1..NCoord

(***************************************************************************)
(* History lines.  cliphist numbers entries with an increasing sequence,   *)
(* restarted by a wipe; a line is "<id>\t<content>".  The k-th line of an  *)
(* epoch has a fixed content here: a large screenshot, a small icon, a     *)
(* mid-sized image, a text, and so on cyclically.                          *)
(***************************************************************************)
BigImage == [shape |-> "binary", w |-> 300, h |-> 200, text |-> <<"[", "b", "]">>]
MidImage == [shape |-> "binary", w |-> 120, h |-> 80, text |-> <<"[", "b", "]">>]
SmallImage == [shape |-> "binary", w |-> 50, h |-> 40, text |-> <<"[", "b", "]">>]
PlainText == [shape |-> "plain", w |-> 0, h |-> 0, text |-> <<"H", "i">>]

ContentOf(id) ==
  IF id % 4 = 1 THEN BigImage
  ELSE IF id % 4 = 2 THEN SmallImage
  ELSE IF id % 4 = 3 THEN MidImage
  ELSE PlainText

Line(id) == [id |-> id, content |-> ContentOf(id)]
Lines == {Line(id) : id \in 1..MaxLines}

\* is_image: the line is "<digits>\t[[ ... binary data ... WxH ... ]]"
is_image(entry) == entry.content.shape = "binary"

\* get_image_dimensions: the first <digits>x<digits> of the line
get_image_dimensions(entry) == <<entry.content.w, entry.content.h>>

\* is_image_worth_ocr without the size test
is_image_worth_ocr_any(entry) == TRUE

is_image_worth_ocr(entry) ==
  LET dims == get_image_dimensions(entry)
  IN dims[1] >= MIN_IMAGE_WIDTH /\ dims[2] >= MIN_IMAGE_HEIGHT

\* get_entry_hash: a digest of the whole line, id included (two different
\* lines are taken to have different digests)
get_entry_hash(entry) == <<"md5", entry.id, entry.content>>

Hashes == {get_entry_hash(l) : l \in Lines}
\* the thumbnail paths of a scene
HashesIn(sc) ==
  IF sc = "bulk" THEN {get_entry_hash(Line(id)) : id \in 1..BulkLines}
  ELSE IF sc = "lost" THEN {get_entry_hash(Line(id)) : id \in 1..LostLines}
  ELSE Hashes

(***************************************************************************)
(* Finite maps (Python dicts) and sequences                                *)
(***************************************************************************)
EmptyMap == [k \in {} |-> ""]
Put(m, k, v) == [x \in (DOMAIN m) \cup {k} |-> IF x = k THEN v ELSE m[x]]
Del(m, k) == [x \in (DOMAIN m) \ {k} |-> m[x]]

RECURSIVE SelectSeqBy(_, _)
\* the subsequence of s whose elements are in the set keep
SelectSeqBy(s, keep) ==
  IF s = <<>> THEN <<>>
  ELSE IF Head(s) \in keep THEN <<Head(s)>> \o SelectSeqBy(Tail(s), keep)
  ELSE SelectSeqBy(Tail(s), keep)

Range(s) == {s[i] : i \in 1..Len(s)}

RECURSIVE NewestFirst(_)
\* "cliphist list": the lines of the history, most recent (highest id) first
NewestFirst(S) ==
  IF S = {} THEN <<>>
  ELSE LET m == CHOOSE x \in S : \A y \in S : y.id <= x.id
       IN <<m>> \o NewestFirst(S \ {m})

\* the first n elements of s
Take(s, n) == IF Len(s) <= n THEN s ELSE SubSeq(s, 1, n)

(***************************************************************************)
(* State                                                                   *)
(***************************************************************************)
VARIABLES
  scene,         \* the scene of this behaviour (never changes)
  history,       \* the lines cliphist currently holds
  nextId,        \* the id cliphist gives the next copied entry
  wiped,         \* the history was last emptied by a wipe (no copy since)
  lock,          \* LOCK_FILE: [exists, pid]; pid 0 is an empty (just opened) file
  index,         \* OCR_CACHE_FILE: [st, m]; st is absent, unreadable, empty, garbled or ok
  thumbs,        \* hash -> absent | partial | raw | resized
  pc,            \* coordinator c's position
  fd,            \* c's open descriptor still names the file at its path
  lockRead,      \* the pid c read from the lock file
  ocr_cache,     \* c's in-memory index
  entries,       \* c's listing
  thumbs_needed, \* c's remaining thumbnail candidates
  ocr_needed,    \* c's remaining OCR candidates
  ocr_count,     \* c's count of indexed images
  calls,         \* c's external calls so far: [decode, resize, ocr]
  notes,         \* c's notifications so far
  scan,          \* how c's listing went: none, failed, wiped (empty after a wipe), listed
  ocr_out,       \* how c's OCR engine call went, while its result is being saved
                 \* (observed in the scene "solo" only; read by no step)
  match_call,    \* one call of fuzzy_match: [query, text, ret]
  results_call,  \* one call of get_entry_results: its arguments, done, ret
  at_spawn,      \* the index file as the handler loaded it and the thumbnail files
                 \* as they were when it then spawned a coordinator (observed in
                 \* the scene "spawn" only; read by no step)
  journal,       \* what has happened to the cache: the OCR records coordinators
                 \* have saved and the handler has not deleted (persisted), and
                 \* the records and thumbnails the handler has removed and no
                 \* listing has shown since (observed in the scene "lost" only;
                 \* read by no step)
  after,         \* what held when c was spawned, and has held since (see last)
  last,          \* none | completed | settled: a run has completed over the present
                 \* history (completed) and left the cache covering it (settled)
  h_pc,          \* the interactive handler's position
  h_in,          \* its request: [kind, selected]
  h_entries,     \* its listing
  h_cache,       \* its in-memory index
  h_ocr_texts,   \* its entry -> OCR text map
  h_todo,        \* wipe_clipboard: the files of the directory still to unlink
  response       \* what it printed

fsVars == <<lock, index, thumbs>>
histVars == <<scene, history, nextId, wiped>>
coLocals == <<fd, lockRead, ocr_cache, entries, thumbs_needed, ocr_needed,
              ocr_count, calls, notes, scan, ocr_out>>
ghostVars == <<after, last, at_spawn, journal>>
hLocals == <<h_in, h_entries, h_cache, h_ocr_texts, h_todo, response>>
hVars == <<h_pc, h_in, h_entries, h_cache, h_ocr_texts, h_todo, response>>
vars == <<scene, history, nextId, wiped, lock, index, thumbs, pc, fd, lockRead,
          ocr_cache, entries, thumbs_needed, ocr_needed, ocr_count, calls, notes,
          scan, ocr_out, match_call, results_call, after, last, at_spawn, journal,
          h_pc, h_in, h_entries, h_cache, h_ocr_texts, h_todo, response>>

NoCalls == [decode |-> 0, resize |-> 0, ocr |-> 0]
\* no line: cliphist ids start at 1
NoLine == Line(0)
NoRequest == [kind |-> "none", selected |-> NoLine]
NoFiles == [lock |-> FALSE, index |-> FALSE, thumbs |-> {}]
NoResponse == [type |-> "none", results |-> <<>>]

\* the state before any process runs, with the index file one of files
\* the queries and texts fuzzy_match is called on: every query of at most
\* MaxQueryLen letters, on texts with matches at different distances
MaxQueryLen == 2
QueryLetters == {"h", "w", "z", "a", "b", "d", "H", "W"}
MatchQueries == UNION {[1..n -> QueryLetters] : n \in 0..MaxQueryLen}
MatchTexts ==
  { <<"H", "e", "l", "l", "o", " ", "W", "o", "r", "l", "d">>,
    <<"a", "x", "x", "x", "x", "x", "x", "b">>,
    <<"a", "X", "x", "x", "x", "x", "B">>,
    <<"z", "h", "z">>,
    <<"h", "w">>,
    <<>> }

\* the history a scene starts with: empty, or in "bulk" the lines 1..n of a
\* long session, whose thumbnails earlier runs have made
BulkSizes == {BulkLines - 4, BulkLines}
HistoriesIn(sc) ==
  IF sc = "bulk" THEN {{Line(id) : id \in 1..n} : n \in BulkSizes}
  ELSE IF sc \in {"spawn", "live"} THEN {{Line(1)}}
  ELSE IF sc = "lost" THEN {{Line(id) : id \in 1..LostLines}}
  ELSE {{}}

\* the lock file a scene starts with: none, or in "probe" any a dead run can
\* have left (empty, or with its pid, which a process of another user may
\* have been given since)
LocksIn(sc) ==
  IF sc = "probe"
  THEN {[exists |-> FALSE, pid |-> 0]}
         \cup {[exists |-> TRUE, pid |-> p] : p \in 0..(NCoord + 1)}
  ELSE {[exists |-> FALSE, pid |-> 0]}

\* no call of fuzzy_match under observation
NoMatchCall == [query |-> <<>>, text |-> <<>>, ret |-> "none"]

\* the arguments get_entry_results is called on: listings of a text line
\* "Hello World" and two images, in any order; queries; filters; OCR texts
HelloLine ==
  [id |-> 4, content |-> [shape |-> "plain", w |-> 0, h |-> 0,
                          text |-> <<"H", "e", "l", "l", "o", " ", "W", "o", "r", "l", "d">>]]
ResultLines == {HelloLine, Line(1), Line(2)}
ResultListings ==
  UNION {{es \in [1..n -> ResultLines] : \A i, j \in 1..n : es[i] = es[j] => i = j} :
           n \in 0..Cardinality(ResultLines)}
ResultQueries == {<<>>, <<"h", "w">>, <<"z", "z">>, <<"t">>, <<"B">>}
ResultTexts ==
  {[e \in {} |-> <<>>], [e \in {Line(1)} |-> <<"t", "x", "t">>],
   [e \in {Line(1)} |-> <<>>], [e \in {HelloLine} |-> <<"t", "x", "t">>]}
NoResultsCall ==
  [entries |-> <<>>, query |-> <<>>, filter_type |-> "", ocr_texts |-> [e \in {} |-> <<>>],
   done |-> FALSE, ret |-> <<>>]

\* no coordinator spawned by the handler now running
NoSpawn == [thumbs |-> {}, index |-> [st |-> "absent", m |-> EmptyMap]]

NoJournal == [persisted |-> {}, removed_ocr |-> {}, removed_thumbs |-> {}]

InitWith(scenes, files) ==
  /\ scene \in scenes
  /\ journal = NoJournal
  /\ at_spawn = NoSpawn
  /\ results_call \in IF scenes = {"results"}
                      THEN [entries : ResultListings, query : ResultQueries,
                            filter_type : {"", "images", "text"},
                            ocr_texts : ResultTexts, done : {FALSE}, ret : {<<>>}]
                      ELSE {NoResultsCall}
  /\ match_call \in IF scenes = {"match"}
                    THEN [query : MatchQueries, text : MatchTexts, ret : {"none"}]
                    ELSE {NoMatchCall}
  /\ scan = [c \in Coords |-> "none"]
  /\ ocr_out = [c \in Coords |-> "none"]
  /\ after = [c \in Coords |-> "none"]
  /\ last = "none"
  /\ h_pc = "idle"
  /\ h_in = NoRequest
  /\ h_entries = <<>>
  /\ h_cache = EmptyMap
  /\ h_ocr_texts = EmptyMap
  /\ h_todo = NoFiles
  /\ response = NoResponse
  /\ history \in HistoriesIn(scene)
  /\ nextId = Cardinality(history) + 1
  /\ wiped = FALSE
  /\ lock \in LocksIn(scene)
  /\ index \in files
  /\ thumbs = [h \in HashesIn(scene) |->
                 IF scene \in {"bulk", "lost"} THEN "resized" ELSE "absent"]
  /\ pc = [c \in Coords |-> "idle"]
  /\ fd = [c \in Coords |-> FALSE]
  /\ lockRead = [c \in Coords |-> 0]
  /\ ocr_cache = [c \in Coords |-> EmptyMap]
  /\ entries = [c \in Coords |-> <<>>]
  /\ thumbs_needed = [c \in Coords |-> <<>>]
  /\ ocr_needed = [c \in Coords |-> <<>>]
  /\ ocr_count = [c \in Coords |-> 0]
  /\ calls = [c \in Coords |-> NoCalls]
  /\ notes = [c \in Coords |-> <<>>]

InitIn(scenes) == InitWith(scenes, {[st |-> "absent", m |-> EmptyMap]})

Init == InitIn(Scenes)

(***************************************************************************)
(* Files                                                                   *)
(***************************************************************************)
NoLock == [exists |-> FALSE, pid |-> 0]
NoIndex == [st |-> "absent", m |-> EmptyMap]
NoText == <<>>
SomeText == <<"t", "x", "t">>

\* the length of json.dumps(m), up to a constant: longer with each key and text
RECURSIVE JsonLen(_)
JsonLen(m) ==
  IF DOMAIN m = {} THEN 0
  ELSE LET k == CHOOSE x \in DOMAIN m : TRUE
       IN 2 + Len(m[k]) + JsonLen(Del(m, k))

\* Writing data at offset 0 of a file that another writer filled since this
\* writer truncated it: the longer old content keeps its tail, which is no JSON.
WriteOver(idx, data) ==
  IF idx.st \in {"ok", "garbled"} /\ JsonLen(idx.m) > JsonLen(data)
  THEN [st |-> "garbled", m |-> idx.m]
  ELSE [st |-> "ok", m |-> data]

\* ["x"] as json.loads returns it: a list, item 0 of which is "x"
JsonList == [k \in {<<"list", 0, PlainText>>} |-> <<"x">>]

\* what the index file can be when a process starts: missing, unreadable,
\* not JSON, or JSON: an object of hash to text, or a list
IndexFiles ==
  { NoIndex,
    [st |-> "unreadable", m |-> EmptyMap],
    [st |-> "garbled", m |-> Put(EmptyMap, get_entry_hash(Line(1)), SomeText)],
    [st |-> "ok", m |-> EmptyMap],
    [st |-> "ok", m |-> Put(EmptyMap, get_entry_hash(Line(1)), SomeText)],
    [st |-> "ok", m |-> Put(EmptyMap, get_entry_hash(Line(1)), NoText)],
    [st |-> "ok", m |-> JsonList] }

\* an index file with a record for each OCR-worthy line among ids
IndexOf(ids) ==
  [st |-> "ok",
   m |-> [h \in {get_entry_hash(Line(id)) : id \in {i \in ids : is_image_worth_ocr(Line(i))}}
            |-> SomeText]]
\* what earlier runs can have left in the index of the scene "bulk": nothing,
\* the records of the oldest lines, or those of the newest
BulkIndexes ==
  {NoIndex, IndexOf(1..8), IndexOf((BulkLines - 12)..BulkLines)}

\* load_ocr_cache: the parsed file (st = "ok": exists, is read and parses; m
\* the value json.loads gives), or {} when it is missing or does not parse
load_ocr_cache(idx) == IF idx.st = "ok" THEN idx.m ELSE EmptyMap

(***************************************************************************)
(* The coordinator (ocr-indexer.py main)                                   *)
(***************************************************************************)
Ended == {"aborted", "crashed", "done", "failed", "killed"}
InTry == {"load", "list", "diff", "t_decode", "t_exists", "t_resize", "t_open",
          "t_write", "o_decode", "o_ocr", "o_write"}
\* the steps of the try block that let an exception through: the thumbnail
\* steps run inside generate_thumbnail's "except Exception"
CanRaise == {"load", "list", "diff", "t_decode", "o_decode", "o_ocr", "o_write"}
Running == {"chk_exists", "chk_read", "chk_kill", "chk_unlink", "lock_open",
            "lock_write", "finally", "finally_exc"} \cup InTry

\* the pid of a process of another user, which lives throughout
ForeignPid == NCoord + 1

\* a process with this pid exists
ProcessExists(pid) == (pid \in Coords /\ pc[pid] \in Running) \/ pid = ForeignPid

\* os.kill(pid, 0) raises PermissionError: the process is not the caller's
NotPermitted(pid) == pid = ForeignPid

\* is_already_running without the probe: no lock is ever taken to be held
is_already_running_never(pidRead) == FALSE

\* is_already_running without "except ProcessLookupError": any pid is a holder
is_already_running_any_pid(pidRead) == pidRead # 0

\* is_already_running, from the pid read: int() raises ValueError on an empty
\* file, os.kill raises ProcessLookupError for a dead pid and PermissionError
\* for a process of another user; the three are caught alike
is_already_running(pidRead) ==
  pidRead # 0 /\ ProcessExists(pidRead) /\ ~NotPermitted(pidRead)

\* descriptors open on a file that is unlinked no longer name the path
Orphaned(at) == [c \in Coords |-> IF pc[c] \in at THEN FALSE ELSE fd[c]]

\* the same for the thumbnail files of the hashes hs
OrphanedThumbs(hs) ==
  [c \in Coords |->
     IF pc[c] = "t_write" /\ get_entry_hash(Head(thumbs_needed[c])) \in hs
     THEN FALSE ELSE fd[c]]

\* main: image_entries
image_entries(es) == SelectSeqBy(es, {e \in Range(es) : is_image(e)})

\* the OCR-worthy images without "if len(top_ocr_candidates) >= MAX_IMAGES_TO_OCR: break"
top_ocr_candidates_all(es) ==
  LET imgs == image_entries(es)
  IN SelectSeqBy(imgs, {e \in Range(imgs) : is_image_worth_ocr(e)})

\* main: the first MAX_IMAGES_TO_OCR OCR-worthy images, most recent first
top_ocr_candidates(es) ==
  LET imgs == image_entries(es)
  IN Take(SelectSeqBy(imgs, {e \in Range(imgs) : is_image_worth_ocr(e)}),
          MAX_IMAGES_TO_OCR)

(***************************************************************************)
(* Bookkeeping of completed runs, kept in the scene "rerun" only.  It      *)
(* reads the step being taken and influences nothing.                      *)
(***************************************************************************)
\* the cache files hold a thumbnail for every image of the listing es and a
\* record for each of its top OCR candidates
Covers(es, th, idx) ==
  /\ \A e \in Range(image_entries(es)) : th[get_entry_hash(e)] # "absent"
  /\ \A e \in Range(top_ocr_candidates(es)) :
       get_entry_hash(e) \in DOMAIN load_ocr_cache(idx)

\* what is left of x after this step: a change of the history voids it, a
\* change of the cache files leaves "completed" at most
Downgraded(x) ==
  IF history' # history THEN "none"
  ELSE IF (index' # index \/ thumbs' # thumbs) /\ x = "settled" THEN "completed"
  ELSE x

TrackRuns ==
  IF scene # "rerun" THEN UNCHANGED <<after, last>>
  ELSE
    LET finished == {c \in Coords : pc[c] = "finally" /\ pc'[c] = "done"}
        overPresent == \E c \in finished : entries[c] = NewestFirst(history)
    IN /\ last' = IF overPresent
                  THEN IF Covers(NewestFirst(history), thumbs', index')
                       THEN "settled" ELSE "completed"
                  ELSE Downgraded(last)
       /\ after' = [c \in Coords |->
                      IF pc[c] = "idle" /\ pc'[c] # "idle" THEN last
                      ELSE IF pc'[c] \in Ended THEN "none"
                      ELSE Downgraded(after[c])]

\* what every step of the program leaves alone or keeps up to date: the
\* fuzzy_match and get_entry_results calls under observation, and the
\* bookkeeping above
\* the index file at the handler's load_ocr_cache call before a spawn and
\* the thumbnail files at its spawn_ocr_indexer call, kept while that handler
\* lives
TrackSpawn ==
  at_spawn' =
    IF scene # "spawn" THEN at_spawn
    ELSE IF h_pc = "h_load" /\ h_pc' = "h_spawn"
    THEN [at_spawn EXCEPT !.index = index]
    ELSE IF h_pc = "h_spawn" /\ h_pc' = "h_respond"
    THEN [at_spawn EXCEPT !.thumbs = {h \in DOMAIN thumbs : thumbs[h] # "absent"}]
    ELSE IF h_pc' = "idle" THEN NoSpawn
    ELSE at_spawn

\* the journal of the cache, kept from the step being taken: a coordinator's
\* completed save_ocr_cache, the handler's delete of an entry, its unlinking
\* of the index or of a thumbnail, and a coordinator's listing
TrackJournal ==
  IF scene # "lost" THEN UNCHANGED journal
  ELSE
    LET byHandler == h_pc' # h_pc
        selected == IF h_in.kind = "delete" THEN {get_entry_hash(h_in.selected)} ELSE {}
        forgets == byHandler /\ h_pc \in {"h_del_exists", "h_del_unlink"}
                             /\ h_pc' \in {"h_save_open", "h_respond"}
        unlinksIndex == byHandler /\ index.st # "absent" /\ index'.st = "absent"
        saved == IF (\E c \in Coords : pc[c] = "o_write" /\ pc'[c] # pc[c])
                    /\ index' # index /\ index'.st = "ok"
                 THEN DOMAIN index'.m ELSE {}
        listed == UNION {{get_entry_hash(e) : e \in Range(entries'[c])} :
                           c \in {d \in Coords : pc[d] = "list" /\ pc'[d] = "diff"}}
        gone_ocr == IF forgets /\ h_pc' = "h_save_open" THEN selected
                    ELSE IF unlinksIndex THEN DOMAIN load_ocr_cache(index)
                    ELSE {}
        gone_thumbs == IF byHandler
                       THEN {h \in DOMAIN thumbs : thumbs[h] # "absent" /\ thumbs'[h] = "absent"}
                       ELSE {}
    IN journal' =
         [persisted |-> IF unlinksIndex THEN {}
                        ELSE IF forgets THEN journal.persisted \ selected
                        ELSE journal.persisted \cup saved,
          removed_ocr |-> (journal.removed_ocr \cup gone_ocr) \ listed,
          removed_thumbs |-> (journal.removed_thumbs \cup gone_thumbs) \ listed]

Track == UNCHANGED <<match_call, results_call>> /\ TrackRuns /\ TrackSpawn /\ TrackJournal

\* is_already_running: LOCK_FILE.exists()
ChkExists(c) ==
  /\ pc[c] = "chk_exists"
  /\ pc' = [pc EXCEPT ![c] = IF lock.exists THEN "chk_read" ELSE "lock_open"]
  /\ UNCHANGED <<hVars, histVars, fsVars, coLocals>>
  /\ Track

\* is_already_running: LOCK_FILE.read_text(); FileNotFoundError is not caught
ChkRead(c) ==
  /\ pc[c] = "chk_read"
  /\ IF lock.exists
     THEN /\ lockRead' = [lockRead EXCEPT ![c] = lock.pid]
          /\ pc' = [pc EXCEPT ![c] = "chk_kill"]
     ELSE /\ pc' = [pc EXCEPT ![c] = "crashed"]
          /\ UNCHANGED lockRead
  /\ UNCHANGED <<hVars, histVars, fsVars, fd, ocr_cache, entries, thumbs_needed,
                 ocr_needed, ocr_count, calls, notes, scan, ocr_out>>
  /\ Track

\* the probe as a wait: the coordinator stays at it while the holder exists
ChkKillWaits(c) ==
  /\ pc[c] = "chk_kill"
  /\ ~is_already_running(lockRead[c])
  /\ pc' = [pc EXCEPT ![c] = "chk_unlink"]
  /\ lockRead' = [lockRead EXCEPT ![c] = 0]
  /\ UNCHANGED <<hVars, histVars, fsVars, fd, ocr_cache, entries, thumbs_needed,
                 ocr_needed, ocr_count, calls, notes, scan, ocr_out>>
  /\ Track

\* is_already_running: int(...) and os.kill(pid, 0); acquire_lock fails and
\* main leaves with sys.exit(0) when the holder exists
ChkKill(c) ==
  /\ pc[c] = "chk_kill"
  /\ pc' = [pc EXCEPT ![c] = IF is_already_running(lockRead[c])
                              THEN "aborted" ELSE "chk_unlink"]
  /\ lockRead' = [lockRead EXCEPT ![c] = 0]
  /\ UNCHANGED <<hVars, histVars, fsVars, fd, ocr_cache, entries, thumbs_needed,
                 ocr_needed, ocr_count, calls, notes, scan, ocr_out>>
  /\ Track

\* is_already_running: the stale lock's LOCK_FILE.unlink(missing_ok=True)
ChkUnlink(c) ==
  /\ pc[c] = "chk_unlink"
  /\ lock' = NoLock
  /\ fd' = Orphaned({"lock_write"})
  /\ pc' = [pc EXCEPT ![c] = "lock_open"]
  /\ UNCHANGED <<hVars, histVars, index, thumbs, lockRead, ocr_cache, entries,
                 thumbs_needed, ocr_needed, ocr_count, calls, notes, scan, ocr_out>>
  /\ Track

\* acquire_lock: LOCK_FILE.write_text opens the file, truncating it
LockOpen(c) ==
  /\ pc[c] = "lock_open"
  /\ lock' = [exists |-> TRUE, pid |-> 0]
  /\ fd' = [fd EXCEPT ![c] = TRUE]
  /\ pc' = [pc EXCEPT ![c] = "lock_write"]
  /\ UNCHANGED <<hVars, histVars, index, thumbs, lockRead, ocr_cache, entries,
                 thumbs_needed, ocr_needed, ocr_count, calls, notes, scan, ocr_out>>
  /\ Track

\* acquire_lock: write_text writes str(os.getpid()) and closes
LockWrite(c) ==
  /\ pc[c] = "lock_write"
  /\ lock' = IF fd[c] THEN [exists |-> TRUE, pid |-> c] ELSE lock
  /\ fd' = [fd EXCEPT ![c] = FALSE]
  /\ pc' = [pc EXCEPT ![c] = "load"]
  /\ UNCHANGED <<hVars, histVars, index, thumbs, lockRead, ocr_cache, entries,
                 thumbs_needed, ocr_needed, ocr_count, calls, notes, scan, ocr_out>>
  /\ Track

\* main: ocr_cache = load_ocr_cache()
Load(c) ==
  /\ pc[c] = "load"
  /\ ocr_cache' = [ocr_cache EXCEPT ![c] = load_ocr_cache(index)]
  /\ pc' = [pc EXCEPT ![c] = "list"]
  /\ UNCHANGED <<hVars, histVars, fsVars, fd, lockRead, entries, thumbs_needed,
                 ocr_needed, ocr_count, calls, notes, scan, ocr_out>>
  /\ Track

\* get_clipboard_entries without the returncode test
get_clipboard_entries_unchecked(ok) == NewestFirst(history)

\* get_clipboard_entries: the listing, or [] when cliphist fails or times out
get_clipboard_entries(ok) == IF ok THEN NewestFirst(history) ELSE <<>>

List(c) ==
  /\ pc[c] = "list"
  /\ \E ok \in BOOLEAN :
       /\ entries' = [entries EXCEPT ![c] = get_clipboard_entries(ok)]
       /\ scan' = [scan EXCEPT ![c] = IF ~ok THEN "failed"
                                      ELSE IF history = {} /\ wiped THEN "wiped"
                                      ELSE "listed"]
  /\ pc' = [pc EXCEPT ![c] = "diff"]
  /\ UNCHANGED <<hVars, histVars, fsVars, fd, lockRead, ocr_cache, thumbs_needed,
                 ocr_needed, ocr_count, calls, notes, ocr_out>>
  /\ Track

\* ocr_needed without the look-up in the loaded index
OcrNeededAll(es, cache) == top_ocr_candidates(es)

\* main: those of the top candidates with no key in the loaded index
OcrNeeded(es, cache) ==
  LET top == top_ocr_candidates(es)
  IN SelectSeqBy(top, {e \in Range(top) : get_entry_hash(e) \notin DOMAIN cache})

\* thumbs_needed without the check for an existing file
ThumbsNeededAll(es) == image_entries(es)

\* main: every image whose thumbnail file does not exist
ThumbsNeeded(es) ==
  LET imgs == image_entries(es)
  IN SelectSeqBy(imgs, {e \in Range(imgs) : thumbs[get_entry_hash(e)] = "absent"})

\* the loops in the other order: OCR before thumbnails
WorkPcOcrFirst(tn, on) ==
  IF on # <<>> THEN "o_decode" ELSE IF tn # <<>> THEN "t_decode" ELSE "finally"

\* a loop that ends after its first entry
WorkPcStop(tn, on) == "finally"

\* where main goes on with these work lists left
WorkPc(tn, on) ==
  IF tn # <<>> THEN "t_decode" ELSE IF on # <<>> THEN "o_decode" ELSE "finally"

\* main: the "Indexed N images" notification after the OCR loop
DoneNotes(ns, n) == IF n > 0 THEN Append(ns, [kind |-> "indexed", n |-> n]) ELSE ns

\* main: the work sets, the early sys.exit(0), the "Indexing N images" notification
Diff(c) ==
  /\ pc[c] = "diff"
  /\ LET on == OcrNeeded(entries[c], ocr_cache[c])
         tn == ThumbsNeeded(entries[c])
     IN /\ ocr_needed' = [ocr_needed EXCEPT ![c] = on]
        /\ thumbs_needed' = [thumbs_needed EXCEPT ![c] = tn]
        /\ notes' = [notes EXCEPT ![c] =
                       IF on # <<>>
                       THEN Append(@, [kind |-> "indexing", n |-> Len(on)])
                       ELSE @]
        /\ pc' = [pc EXCEPT ![c] = WorkPc(tn, on)]
  /\ UNCHANGED <<hVars, histVars, fsVars, fd, lockRead, ocr_cache, entries, ocr_count, calls, scan, ocr_out>>
  /\ Track

\* decode_image: cliphist decode gives the bytes of an entry the history holds,
\* and may fail or time out
CanDecode(entry) == entry \in history

\* thumbnail loop: image_data = decode_image(entry)
TDecode(c) ==
  /\ pc[c] = "t_decode"
  /\ calls' = [calls EXCEPT ![c].decode = @ + 1]
  /\ \E ok \in BOOLEAN :
       /\ ok => CanDecode(Head(thumbs_needed[c]))
       /\ IF ok
          THEN /\ pc' = [pc EXCEPT ![c] = "t_exists"]
               /\ UNCHANGED thumbs_needed
          ELSE /\ thumbs_needed' = [thumbs_needed EXCEPT ![c] = Tail(@)]
               /\ pc' = [pc EXCEPT ![c] = WorkPc(Tail(thumbs_needed[c]), ocr_needed[c])]
  /\ UNCHANGED <<hVars, histVars, fsVars, fd, lockRead, ocr_cache, entries, ocr_needed,
                 ocr_count, notes, scan, ocr_out>>
  /\ Track

\* generate_thumbnail: dims and (dims[0] > MAX_THUMB_SIZE or dims[1] > MAX_THUMB_SIZE)
NeedsResize(entry) ==
  LET dims == get_image_dimensions(entry)
  IN dims[1] > MAX_THUMB_SIZE \/ dims[2] > MAX_THUMB_SIZE

\* generate_thumbnail: thumb_path.exists() returns at once, else resize or store
TExists(c) ==
  /\ pc[c] = "t_exists"
  /\ LET e == Head(thumbs_needed[c])
         rest == Tail(thumbs_needed[c])
     IN IF thumbs[get_entry_hash(e)] # "absent"
        THEN /\ thumbs_needed' = [thumbs_needed EXCEPT ![c] = rest]
             /\ pc' = [pc EXCEPT ![c] = WorkPc(rest, ocr_needed[c])]
        ELSE /\ pc' = [pc EXCEPT ![c] = IF NeedsResize(e) THEN "t_resize" ELSE "t_open"]
             /\ UNCHANGED thumbs_needed
  /\ UNCHANGED <<hVars, histVars, fsVars, fd, lockRead, ocr_cache, entries, ocr_needed,
                 ocr_count, calls, notes, scan, ocr_out>>
  /\ Track

\* generate_thumbnail: magick writes the thumbnail itself; a non-zero exit falls
\* back to storing the bytes, a timeout returns False and may leave a partial file
TResize(c) ==
  /\ pc[c] = "t_resize"
  /\ calls' = [calls EXCEPT ![c].resize = @ + 1]
  /\ LET e == Head(thumbs_needed[c])
         h == get_entry_hash(e)
         rest == Tail(thumbs_needed[c])
     IN \E out \in {"ok", "failed", "timeout", "timeout_partial"} :
          IF out = "failed"
          THEN /\ pc' = [pc EXCEPT ![c] = "t_open"]
               /\ UNCHANGED <<thumbs, thumbs_needed>>
          ELSE /\ thumbs' = IF out = "ok" THEN [thumbs EXCEPT ![h] = "resized"]
                            ELSE IF out = "timeout_partial"
                                 THEN [thumbs EXCEPT ![h] = "partial"]
                                 ELSE thumbs
               /\ thumbs_needed' = [thumbs_needed EXCEPT ![c] = rest]
               /\ pc' = [pc EXCEPT ![c] = WorkPc(rest, ocr_needed[c])]
  /\ UNCHANGED <<hVars, histVars, lock, index, fd, lockRead, ocr_cache, entries, ocr_needed,
                 ocr_count, notes, scan, ocr_out>>
  /\ Track

\* generate_thumbnail: thumb_path.write_bytes opens the file, truncating it
TOpen(c) ==
  /\ pc[c] = "t_open"
  /\ thumbs' = [thumbs EXCEPT ![get_entry_hash(Head(thumbs_needed[c]))] = "partial"]
  /\ fd' = [fd EXCEPT ![c] = TRUE]
  /\ pc' = [pc EXCEPT ![c] = "t_write"]
  /\ UNCHANGED <<hVars, histVars, lock, index, lockRead, ocr_cache, entries, thumbs_needed,
                 ocr_needed, ocr_count, calls, notes, scan, ocr_out>>
  /\ Track

\* generate_thumbnail: write_bytes writes image_data and closes
TWrite(c) ==
  /\ pc[c] = "t_write"
  /\ LET h == get_entry_hash(Head(thumbs_needed[c]))
         rest == Tail(thumbs_needed[c])
     IN /\ thumbs' = IF fd[c] THEN [thumbs EXCEPT ![h] = "raw"] ELSE thumbs
        /\ thumbs_needed' = [thumbs_needed EXCEPT ![c] = rest]
        /\ pc' = [pc EXCEPT ![c] = WorkPc(rest, ocr_needed[c])]
  /\ fd' = [fd EXCEPT ![c] = FALSE]
  /\ UNCHANGED <<hVars, histVars, lock, index, lockRead, ocr_cache, entries, ocr_needed,
                 ocr_count, calls, notes, scan, ocr_out>>
  /\ Track

\* the OCR loop taking a failed decode for an image without text
ODecodeMarksEmpty(c) ==
  /\ pc[c] = "o_decode"
  /\ calls' = [calls EXCEPT ![c].decode = @ + 1]
  /\ \E ok \in BOOLEAN :
       /\ ok => CanDecode(Head(ocr_needed[c]))
       /\ IF ok
          THEN /\ pc' = [pc EXCEPT ![c] = "o_ocr"]
               /\ UNCHANGED <<ocr_needed, notes, ocr_cache>>
          ELSE /\ ocr_needed' = [ocr_needed EXCEPT ![c] = Tail(@)]
               /\ ocr_cache' = [ocr_cache EXCEPT ![c] =
                                  Put(@, get_entry_hash(Head(ocr_needed[c])), NoText)]
               /\ pc' = [pc EXCEPT ![c] = WorkPc(<<>>, Tail(ocr_needed[c]))]
               /\ notes' = [notes EXCEPT ![c] =
                              IF Tail(ocr_needed[c]) = <<>>
                              THEN DoneNotes(@, ocr_count[c]) ELSE @]
  /\ UNCHANGED <<hVars, histVars, fsVars, fd, lockRead, entries, thumbs_needed,
                 ocr_count, scan, ocr_out>>
  /\ Track

\* OCR loop: image_data = decode_image(entry); "continue" when it is None
ODecode(c) ==
  /\ pc[c] = "o_decode"
  /\ calls' = [calls EXCEPT ![c].decode = @ + 1]
  /\ \E ok \in BOOLEAN :
       /\ ok => CanDecode(Head(ocr_needed[c]))
       /\ IF ok
          THEN /\ pc' = [pc EXCEPT ![c] = "o_ocr"]
               /\ UNCHANGED <<ocr_needed, notes>>
          ELSE /\ ocr_needed' = [ocr_needed EXCEPT ![c] = Tail(@)]
               /\ pc' = [pc EXCEPT ![c] = WorkPc(<<>>, Tail(ocr_needed[c]))]
               /\ notes' = [notes EXCEPT ![c] =
                              IF Tail(ocr_needed[c]) = <<>>
                              THEN DoneNotes(@, ocr_count[c]) ELSE @]
  /\ UNCHANGED <<hVars, histVars, fsVars, fd, lockRead, ocr_cache, entries, thumbs_needed,
                 ocr_count, scan, ocr_out>>
  /\ Track

\* run_ocr_on_image: the stripped text tesseract printed, "" when it printed
\* none and "" when it timed out or could not be run
run_ocr_on_image(out) == IF out = "text" THEN SomeText ELSE NoText

\* OCR loop: text = run_ocr_on_image(...); ocr_cache[entry_hash] = text;
\* save_ocr_cache opens the index file, truncating it
OOcr(c) ==
  /\ pc[c] = "o_ocr"
  /\ calls' = [calls EXCEPT ![c].ocr = @ + 1]
  /\ \E out \in {"text", "empty", "failed"} :
       /\ ocr_cache' = [ocr_cache EXCEPT ![c] =
                          Put(@, get_entry_hash(Head(ocr_needed[c])), run_ocr_on_image(out))]
       /\ ocr_out' = [ocr_out EXCEPT ![c] = IF scene = "solo" THEN out ELSE "none"]
  /\ index' = [st |-> "empty", m |-> EmptyMap]
  /\ fd' = [fd EXCEPT ![c] = TRUE]
  /\ pc' = [pc EXCEPT ![c] = "o_write"]
  /\ UNCHANGED <<hVars, histVars, lock, thumbs, lockRead, entries, thumbs_needed, ocr_needed,
                 ocr_count, notes, scan>>
  /\ Track

\* save_ocr_cache: write_text writes json.dumps(cache) and closes; ocr_count += 1
OWrite(c) ==
  /\ pc[c] = "o_write"
  /\ index' = IF fd[c] THEN WriteOver(index, ocr_cache[c]) ELSE index
  /\ fd' = [fd EXCEPT ![c] = FALSE]
  /\ ocr_count' = [ocr_count EXCEPT ![c] = @ + 1]
  /\ ocr_needed' = [ocr_needed EXCEPT ![c] = Tail(@)]
  /\ pc' = [pc EXCEPT ![c] = WorkPc(<<>>, Tail(ocr_needed[c]))]
  /\ notes' = [notes EXCEPT ![c] =
                 IF Tail(ocr_needed[c]) = <<>> THEN DoneNotes(@, ocr_count[c] + 1) ELSE @]
  /\ ocr_out' = [ocr_out EXCEPT ![c] = "none"]
  /\ UNCHANGED <<hVars, histVars, lock, thumbs, lockRead, ocr_cache, entries, thumbs_needed,
                 calls, scan>>
  /\ Track

\* release_lock that leaves the file in place
release_lock_skipped == lock

\* release_lock: the lock file after LOCK_FILE.unlink(missing_ok=True)
release_lock == NoLock

\* the memory of a process that has ended is gone
Forget(c) ==
  /\ lockRead' = [lockRead EXCEPT ![c] = 0]
  /\ ocr_cache' = [ocr_cache EXCEPT ![c] = EmptyMap]
  /\ entries' = [entries EXCEPT ![c] = <<>>]
  /\ thumbs_needed' = [thumbs_needed EXCEPT ![c] = <<>>]
  /\ ocr_needed' = [ocr_needed EXCEPT ![c] = <<>>]
  /\ ocr_count' = [ocr_count EXCEPT ![c] = 0]
  /\ calls' = [calls EXCEPT ![c] = NoCalls]
  /\ notes' = [notes EXCEPT ![c] = <<>>]
  /\ scan' = [scan EXCEPT ![c] = "none"]
  /\ ocr_out' = [ocr_out EXCEPT ![c] = "none"]

\* main: finally: release_lock() is LOCK_FILE.unlink(missing_ok=True); the
\* process then ends, with the exception's traceback if one was raised
Finally(c) ==
  /\ pc[c] \in {"finally", "finally_exc"}
  /\ lock' = release_lock
  /\ fd' = Orphaned({"lock_write"})
  /\ pc' = [pc EXCEPT ![c] = IF pc[c] = "finally" THEN "done" ELSE "failed"]
  /\ Forget(c)
  /\ UNCHANGED <<hVars, histVars, index, thumbs>>
  /\ Track

\* a step inside main's try block raises: control goes to the finally clause,
\* which reads none of main's variables
Raise(c) ==
  /\ pc[c] \in CanRaise
  /\ pc' = [pc EXCEPT ![c] = "finally_exc"]
  /\ fd' = [fd EXCEPT ![c] = FALSE]
  /\ Forget(c)
  /\ UNCHANGED <<hVars, histVars, fsVars>>
  /\ Track

\* the process is killed from outside (SIGKILL): nothing more of it runs
Kill(c) ==
  /\ pc[c] \in Running
  /\ pc' = [pc EXCEPT ![c] = "killed"]
  /\ fd' = [fd EXCEPT ![c] = FALSE]
  /\ Forget(c)
  /\ UNCHANGED <<hVars, histVars, fsVars>>
  /\ Track

(***************************************************************************)
(* The clipboard manager (cliphist), used outside the plugin               *)
(***************************************************************************)
\* the user copies something: cliphist stores it under the next id
Copy ==
  /\ nextId <= MaxLinesOf(scene)
  /\ history' = history \cup {Line(nextId)}
  /\ nextId' = nextId + 1
  /\ wiped' = FALSE
  /\ UNCHANGED <<scene, fsVars, pc, coLocals, hVars>>
  /\ Track

\* "cliphist delete" of one entry
CliphistDelete(l) ==
  /\ l \in history
  /\ history' = history \ {l}
  /\ UNCHANGED <<scene, nextId, wiped, fsVars, pc, coLocals, hVars>>
  /\ Track

\* "cliphist wipe": the history is emptied and the id sequence restarts
CliphistWipe ==
  /\ nextId > 1
  /\ history' = {}
  /\ nextId' = 1
  /\ wiped' = TRUE
  /\ UNCHANGED <<scene, fsVars, pc, coLocals, hVars>>
  /\ Track

(***************************************************************************)
(* The interactive handler (handler.py main), one process per request      *)
(***************************************************************************)
Queries == {<<>>, <<"t">>}
Filters == {"", "images", "text"}

\* str.lower on the letters in use
Lower(ch) ==
  CASE ch = "H" -> "h"
    [] ch = "W" -> "w"
    [] ch = "X" -> "x"
    [] ch = "B" -> "b"
    [] OTHER -> ch
LowerAll(str) == [i \in 1..Len(str) |-> Lower(str[i])]

RECURSIVE Advance(_, _, _)
\* fuzzy_match's loop: qi after the characters of text, in order
Advance(query, text, qi) ==
  IF text = <<>> THEN qi
  ELSE Advance(query, Tail(text),
               IF qi < Len(query) /\ Head(text) = query[qi + 1] THEN qi + 1 ELSE qi)

\* fuzzy_match without the two .lower() calls
fuzzy_match_cased(query, text) == Advance(query, text, 0) = Len(query)

\* fuzzy_match: all query characters appear in order
fuzzy_match(query, text) ==
  Advance(LowerAll(query), LowerAll(text), 0) = Len(query)

\* clean_entry: the line without its id prefix
clean_entry(entry) == entry.content.text

\* get_ocr_text_for_entries: the cached text of every image entry that has one
get_ocr_text_for_entries(es, cache) ==
  [e \in {x \in Range(es) : is_image(x) /\ get_entry_hash(x) \in DOMAIN cache}
     |-> cache[get_entry_hash(e)]]

NoThumb == <<>>

\* get_image_thumbnail without thumb_path.exists()
get_image_thumbnail_unchecked(entry) ==
  IF is_image(entry) THEN get_entry_hash(entry) ELSE NoThumb

\* get_image_thumbnail: the path of the thumbnail file if it exists
get_image_thumbnail(entry) ==
  IF is_image(entry) /\ thumbs[get_entry_hash(entry)] # "absent"
  THEN get_entry_hash(entry) ELSE NoThumb

\* the id of the "No clipboard entries" item
EmptyId == [id |-> 0, content |-> [shape |-> "__empty__", w |-> 0, h |-> 0, text |-> <<>>]]
EmptyState == [id |-> EmptyId, description |-> <<"info">>, thumbnail |-> NoThumb]

\* dict.get(entry, "")
OcrTextOf(ocr_texts, entry) ==
  IF entry \in DOMAIN ocr_texts THEN ocr_texts[entry] ELSE NoText

\* Passes without the two "continue" of the type filter
PassesAnyType(entry, query, filter_type, ocr_texts) ==
  query # <<>> =>
    \/ fuzzy_match(query, clean_entry(entry))
    \/ /\ is_image(entry)
       /\ entry \in DOMAIN ocr_texts
       /\ ocr_texts[entry] # <<>>
       /\ fuzzy_match(query, ocr_texts[entry])

\* Passes without ocr_match
PassesContentOnly(entry, query, filter_type, ocr_texts) ==
  /\ ~(filter_type = "images" /\ ~is_image(entry))
  /\ ~(filter_type = "text" /\ is_image(entry))
  /\ query # <<>> => fuzzy_match(query, clean_entry(entry))

\* get_entry_results: whether the loop keeps the entry
Passes(entry, query, filter_type, ocr_texts) ==
  /\ ~(filter_type = "images" /\ ~is_image(entry))
  /\ ~(filter_type = "text" /\ is_image(entry))
  /\ query # <<>> =>
       \/ fuzzy_match(query, clean_entry(entry))
       \/ /\ is_image(entry)
          /\ OcrTextOf(ocr_texts, entry) # NoText
          /\ fuzzy_match(query, OcrTextOf(ocr_texts, entry))

\* get_entry_results: the result built for an entry
ResultOf(entry, ocr_texts) ==
  IF is_image(entry)
  THEN [id |-> entry,
        description |-> IF OcrTextOf(ocr_texts, entry) # NoText
                        THEN OcrTextOf(ocr_texts, entry) ELSE <<"Image">>,
        thumbnail |-> get_image_thumbnail(entry)]
  ELSE [id |-> entry, description |-> <<"Text">>, thumbnail |-> NoThumb]

RECURSIVE EntryResults(_, _, _, _)
EntryResults(es, query, filter_type, ocr_texts) ==
  IF es = <<>> THEN <<>>
  ELSE (IF Passes(Head(es), query, filter_type, ocr_texts)
        THEN <<ResultOf(Head(es), ocr_texts)>> ELSE <<>>)
       \o EntryResults(Tail(es), query, filter_type, ocr_texts)

\* get_entry_results without "if not results: results.append(...)"
get_entry_results_bare(es, query, filter_type, ocr_texts) ==
  EntryResults(es, query, filter_type, ocr_texts)

get_entry_results(es, query, filter_type, ocr_texts) ==
  LET results == EntryResults(es, query, filter_type, ocr_texts)
  IN IF results = <<>> THEN <<EmptyState>> ELSE results

\* the next coordinator process to be created
NextCoord == CHOOSE c \in CoordsOf(scene) :
               pc[c] = "idle" /\ \A d \in CoordsOf(scene) : pc[d] = "idle" => c <= d

\* a request arrives: the launcher starts a handler process
Invoke ==
  /\ h_pc = "idle"
  /\ h_pc' = "h_list"
  /\ UNCHANGED <<histVars, fsVars, pc, coLocals, hLocals>>
  /\ Track

\* main: entries = get_clipboard_entries()
HList ==
  /\ h_pc = "h_list"
  /\ \E ok \in BOOLEAN : h_entries' = get_clipboard_entries(ok)
  /\ h_pc' = "h_load"
  /\ UNCHANGED <<histVars, fsVars, pc, coLocals, h_in, h_cache, h_ocr_texts, h_todo,
                 response>>
  /\ Track

\* main spawning the indexer on every step that lists results
BranchSpawnAlways(kind) ==
  CASE kind \in {"initial", "search"} -> "h_spawn"
    [] kind = "wipe" -> "h_wipe_iter"
    [] kind = "delete" -> "h_del_exists"
    [] OTHER -> "h_respond"

\* where main goes after loading, by step and action
Branch(kind) ==
  CASE kind = "initial" -> "h_spawn"
    [] kind = "wipe" -> "h_wipe_iter"
    [] kind = "delete" -> "h_del_exists"
    [] OTHER -> "h_respond"

\* main: ocr_cache = load_ocr_cache(); ocr_texts = get_ocr_text_for_entries(...);
\* then the dispatch on the request read from stdin: its step and action (kind)
\* and its selected item.  What a branch no longer reads is dropped here.
HLoad(kind, sel) ==
  /\ h_pc = "h_load"
  /\ kind = "initial" => \E c \in CoordsOf(scene) : pc[c] = "idle"
  /\ (kind = "delete") = (sel # NoLine)
  /\ h_in' = [kind |-> kind, selected |-> sel]
  /\ h_cache' = IF kind = "delete" THEN load_ocr_cache(index) ELSE EmptyMap
  /\ h_ocr_texts' = IF kind \in {"initial", "search", "delete"}
                    THEN get_ocr_text_for_entries(h_entries, load_ocr_cache(index))
                    ELSE EmptyMap
  /\ h_entries' = IF kind \in {"initial", "search", "delete"} THEN h_entries ELSE <<>>
  /\ h_pc' = Branch(kind)
  /\ UNCHANGED <<histVars, fsVars, pc, coLocals, h_todo, response>>
  /\ Track

\* spawn_ocr_indexer: Popen of ocr-indexer.py in a new session, not waited for
HSpawn ==
  /\ h_pc = "h_spawn"
  /\ pc' = [pc EXCEPT ![NextCoord] = "chk_exists"]
  /\ h_pc' = "h_respond"
  /\ UNCHANGED <<histVars, fsVars, coLocals, hLocals>>
  /\ Track

\* the delete branch without "entries = [e for e in entries if e != selected_id]"
HForgetEntryStale ==
  LET entry == h_in.selected
      entry_hash == get_entry_hash(entry)
  IN /\ h_entries' = h_entries
     /\ h_cache' = IF entry_hash \in DOMAIN h_cache THEN Del(h_cache, entry_hash)
                   ELSE h_cache
     /\ h_ocr_texts' = [k \in (DOMAIN h_ocr_texts) \ {entry} |-> h_ocr_texts[k]]
     /\ h_pc' = IF entry_hash \in DOMAIN h_cache THEN "h_save_open" ELSE "h_respond"

\* main, step "action", action "delete", after delete_entry: the entry leaves
\* entries, its key leaves ocr_cache (saved if it was there) and ocr_texts
HForgetEntry ==
  LET entry == h_in.selected
      entry_hash == get_entry_hash(entry)
  IN /\ h_entries' = SelectSeqBy(h_entries, Range(h_entries) \ {entry})
     /\ h_cache' = IF entry_hash \in DOMAIN h_cache THEN Del(h_cache, entry_hash)
                   ELSE h_cache
     /\ h_ocr_texts' = [k \in (DOMAIN h_ocr_texts) \ {entry} |-> h_ocr_texts[k]]
     /\ h_pc' = IF entry_hash \in DOMAIN h_cache THEN "h_save_open" ELSE "h_respond"

\* delete_entry: Popen of "cliphist delete" (detached: its effect is a later
\* CliphistDelete step), then thumb_path.exists()
HDelExists ==
  /\ h_pc = "h_del_exists"
  /\ IF thumbs[get_entry_hash(h_in.selected)] # "absent"
     THEN /\ h_pc' = "h_del_unlink"
          /\ UNCHANGED <<h_entries, h_cache, h_ocr_texts>>
     ELSE HForgetEntry
  /\ UNCHANGED <<histVars, fsVars, pc, coLocals, h_in, h_todo, response>>
  /\ Track

\* the handler dies of an uncaught exception: no response is printed
HCrash ==
  /\ h_pc' = "idle"
  /\ h_in' = NoRequest
  /\ h_entries' = <<>>
  /\ h_cache' = EmptyMap
  /\ h_ocr_texts' = EmptyMap
  /\ h_todo' = NoFiles
  /\ response' = NoResponse

\* delete_entry: thumb_path.unlink(); FileNotFoundError if it is gone by now
HDelUnlink ==
  /\ h_pc = "h_del_unlink"
  /\ LET h == get_entry_hash(h_in.selected)
     IN IF thumbs[h] # "absent"
        THEN /\ thumbs' = [thumbs EXCEPT ![h] = "absent"]
             /\ fd' = OrphanedThumbs({h})
             /\ HForgetEntry
             /\ UNCHANGED <<h_in, h_todo, response>>
        ELSE /\ HCrash
             /\ UNCHANGED <<thumbs, fd>>
  /\ UNCHANGED <<histVars, lock, index, pc, lockRead, ocr_cache, entries,
                 thumbs_needed, ocr_needed, ocr_count, calls, notes, scan, ocr_out>>
  /\ Track

\* save_ocr_cache: write_text opens the index file, truncating it
HSaveOpen ==
  /\ h_pc = "h_save_open"
  /\ index' = [st |-> "empty", m |-> EmptyMap]
  /\ h_pc' = "h_save_write"
  /\ UNCHANGED <<histVars, lock, thumbs, pc, coLocals, hLocals>>
  /\ Track

\* save_ocr_cache: write_text writes json.dumps(cache) and closes
HSaveWrite ==
  /\ h_pc = "h_save_write"
  /\ index' = WriteOver(index, h_cache)
  /\ h_pc' = "h_respond"
  /\ UNCHANGED <<histVars, lock, thumbs, pc, coLocals, hLocals>>
  /\ Track

\* wipe_clipboard: Popen of "cliphist wipe" (detached: its effect is a later
\* CliphistWipe step), then the files CACHE_DIR.iterdir() finds
HWipeIter ==
  /\ h_pc = "h_wipe_iter"
  /\ LET found == [lock |-> lock.exists,
                   index |-> index.st # "absent",
                   thumbs |-> {h \in DOMAIN thumbs : thumbs[h] # "absent"}]
     IN /\ h_todo' = found
        /\ h_pc' = IF found = NoFiles THEN "h_respond" ELSE "h_wipe_unlink"
  /\ UNCHANGED <<histVars, fsVars, pc, coLocals, h_in, h_entries, h_cache,
                 h_ocr_texts, response>>
  /\ Track

\* wipe_clipboard: f.unlink() of one of the files found, in directory order;
\* FileNotFoundError if it is gone by now
HWipeUnlink ==
  /\ h_pc = "h_wipe_unlink"
  /\ \/ /\ h_todo.lock
        /\ IF lock.exists
           THEN /\ lock' = NoLock
                /\ fd' = Orphaned({"lock_write"})
                /\ h_todo' = [h_todo EXCEPT !.lock = FALSE]
                /\ h_pc' = IF h_todo' = NoFiles THEN "h_respond" ELSE h_pc
                /\ UNCHANGED <<h_in, h_entries, h_cache, h_ocr_texts, response>>
           ELSE HCrash /\ UNCHANGED <<lock, fd>>
        /\ UNCHANGED <<index, thumbs>>
     \/ /\ h_todo.index
        /\ IF index.st # "absent"
           THEN /\ index' = NoIndex
                /\ fd' = Orphaned({"o_write"})
                /\ h_todo' = [h_todo EXCEPT !.index = FALSE]
                /\ h_pc' = IF h_todo' = NoFiles THEN "h_respond" ELSE h_pc
                /\ UNCHANGED <<h_in, h_entries, h_cache, h_ocr_texts, response>>
           ELSE HCrash /\ UNCHANGED <<index, fd>>
        /\ UNCHANGED <<lock, thumbs>>
     \/ \E h \in h_todo.thumbs :
          /\ IF thumbs[h] # "absent"
             THEN /\ thumbs' = [thumbs EXCEPT ![h] = "absent"]
                  /\ fd' = OrphanedThumbs({h})
                  /\ h_todo' = [h_todo EXCEPT !.thumbs = @ \ {h}]
                  /\ h_pc' = IF h_todo' = NoFiles THEN "h_respond" ELSE h_pc
                  /\ UNCHANGED <<h_in, h_entries, h_cache, h_ocr_texts, response>>
             ELSE HCrash /\ UNCHANGED <<thumbs, fd>>
          /\ UNCHANGED <<lock, index>>
  /\ UNCHANGED <<histVars, pc, lockRead, ocr_cache, entries, thumbs_needed,
                 ocr_needed, ocr_count, calls, notes, scan, ocr_out>>
  /\ Track

\* main: the response printed for the request
HRespond ==
  /\ h_pc = "h_respond"
  /\ \E query \in Queries, filter_type \in Filters :
       response' =
         CASE h_in.kind = "initial" ->
                [type |-> "results",
                 results |-> get_entry_results(h_entries, <<>>, "", h_ocr_texts)]
           [] h_in.kind \in {"search", "delete"} ->
                [type |-> "results",
                 results |-> get_entry_results(h_entries, query, filter_type, h_ocr_texts)]
           [] OTHER -> [type |-> "execute", results |-> <<>>]
  /\ h_pc' = "h_done"
  /\ UNCHANGED <<histVars, fsVars, pc, coLocals, h_in, h_entries, h_cache,
                 h_ocr_texts, h_todo>>
  /\ Track

\* the handler process ends
HExit ==
  /\ h_pc = "h_done"
  /\ HCrash
  /\ UNCHANGED <<histVars, fsVars, pc, coLocals>>
  /\ Track

HandlerStep ==
  \/ Invoke \/ HList
  \/ \E kind \in {"initial", "search", "copy", "wipe"} : HLoad(kind, NoLine)
  \/ \E sel \in {Line(id) : id \in 1..MaxLinesOf(scene)} : HLoad("delete", sel)
  \/ HSpawn \/ HDelExists \/ HDelUnlink \/ HSaveOpen \/ HSaveWrite
  \/ HWipeIter \/ HWipeUnlink \/ HRespond \/ HExit

CoordStep(c) ==
  \/ ChkExists(c) \/ ChkRead(c) \/ ChkKill(c) \/ ChkUnlink(c)
  \/ LockOpen(c) \/ LockWrite(c) \/ Load(c) \/ List(c) \/ Diff(c)
  \/ TDecode(c) \/ TExists(c) \/ TResize(c) \/ TOpen(c) \/ TWrite(c)
  \/ ODecode(c) \/ OOcr(c) \/ OWrite(c) \/ Finally(c) \/ Raise(c) \/ Kill(c)

Next ==
  \/ \E c \in Coords : CoordStep(c)
  \/ HandlerStep
  \/ Copy
  \/ \E l \in Lines : CliphistDelete(l)
  \/ CliphistWipe

Spec == Init /\ [][Next]_vars

\* the same program, observed with the bookkeeping of completed runs
InitRerun == InitIn({"rerun"})
SpecRerun == InitRerun /\ [][Next]_vars

\* one run after another over a long history whose images have thumbnails,
\* with cliphist decode and tesseract working
InitBulk == InitWith({"bulk"}, BulkIndexes)
NextBulk ==
  \/ Invoke
  \/ HList
  \/ HLoad("initial", NoLine)
  \/ HSpawn
  \/ HRespond
  \/ HExit
  \/ \E c \in Coords :
       \/ ChkExists(c) \/ LockOpen(c) \/ LockWrite(c) \/ Load(c) \/ List(c) \/ Diff(c)
       \/ ODecode(c) /\ pc'[c] = "o_ocr"
       \/ OOcr(c) /\ ocr_cache'[c][get_entry_hash(Head(ocr_needed[c]))] = SomeText
       \/ OWrite(c)
       \/ Finally(c) \/ Raise(c) \/ Kill(c)
SpecBulk == InitBulk /\ [][NextBulk]_vars

\* one call of fuzzy_match on a query and a text, returning
Match ==
  /\ match_call.ret = "none"
  /\ match_call' = [match_call EXCEPT
                      !.ret = IF fuzzy_match(match_call.query, match_call.text)
                              THEN "true" ELSE "false"]
  /\ UNCHANGED <<histVars, fsVars, pc, coLocals, ghostVars, hVars, results_call>>

InitMatch == InitWith({"match"}, {NoIndex})
NextMatch == Match
SpecMatch == InitMatch /\ [][NextMatch]_vars

\* one call of get_entry_results on a listing, a query, a filter and OCR
\* texts, returning
Results ==
  /\ ~results_call.done
  /\ results_call' = [results_call EXCEPT
                        !.done = TRUE,
                        !.ret = get_entry_results(results_call.entries, results_call.query,
                                                  results_call.filter_type,
                                                  results_call.ocr_texts)]
  /\ UNCHANGED <<histVars, fsVars, pc, coLocals, ghostVars, hVars, match_call>>

InitResults == InitWith({"results"}, {NoIndex})
NextResults == Results
SpecResults == InitResults /\ [][NextResults]_vars

\* coordinators up to the point where they hold the lock or have given up,
\* over every kind of lock file
InitProbe == InitWith({"probe"}, {NoIndex})
NextProbe ==
  \/ Invoke
  \/ HList
  \/ HLoad("initial", NoLine)
  \/ HSpawn
  \/ HRespond
  \/ HExit
  \/ \E c \in Coords :
       \/ ChkExists(c) \/ ChkRead(c) \/ ChkKill(c) \/ ChkUnlink(c)
       \/ LockOpen(c) \/ LockWrite(c) \/ Kill(c)
SpecProbe == InitProbe /\ [][NextProbe]_vars

\* initial and search requests over a history of one screenshot, indexed or
\* not by an earlier run, and the coordinator the initial request spawns (no
\* lock file is there when it starts)
InitSpawn == InitWith({"spawn"}, {NoIndex, IndexOf({1})})
NextSpawn ==
  \/ Invoke
  \/ HList
  \/ \E kind \in {"initial", "search"} : HLoad(kind, NoLine)
  \/ HSpawn
  \/ HRespond
  \/ HExit
  \/ \E c \in Coords :
       \/ ChkExists(c) \/ LockOpen(c) \/ LockWrite(c) \/ Load(c) \/ List(c) \/ Diff(c)
       \/ TDecode(c) \/ TExists(c) \/ TResize(c) \/ TOpen(c) \/ TWrite(c)
       \/ ODecode(c) \/ OOcr(c) \/ OWrite(c) \/ Finally(c) \/ Raise(c) \/ Kill(c)
  \/ Copy
SpecSpawn == InitSpawn /\ [][NextSpawn]_vars

\* initial requests and requests to delete the oldest entry, over a history
\* of three images whose thumbnails exist and whose oldest has an OCR
\* record, and the coordinator an initial request spawns
InitLost == InitWith({"lost"}, {IndexOf({1})})
NextLost ==
  \/ Invoke
  \/ HList
  \/ HLoad("initial", NoLine)
  \/ HLoad("delete", Line(1))
  \/ HSpawn
  \/ HDelExists
  \/ HDelUnlink
  \/ HSaveOpen
  \/ HSaveWrite
  \/ HRespond
  \/ HExit
  \/ \E c \in Coords :
       \/ ChkExists(c) \/ LockOpen(c) \/ LockWrite(c) \/ Load(c) \/ List(c) \/ Diff(c)
       \/ TDecode(c) \/ TExists(c) \/ TResize(c) \/ TOpen(c) \/ TWrite(c)
       \/ ODecode(c) \/ OOcr(c) \/ OWrite(c) \/ Finally(c) \/ Raise(c) \/ Kill(c)
  \/ CliphistDelete(Line(1))
SpecLost == InitLost /\ [][NextLost]_vars

\* the steps coordinator c takes by itself (a kill comes from outside)
Runs(c) ==
  \/ ChkExists(c) \/ ChkRead(c) \/ ChkKill(c) \/ ChkUnlink(c)
  \/ LockOpen(c) \/ LockWrite(c) \/ Load(c) \/ List(c) \/ Diff(c)
  \/ TDecode(c) \/ TExists(c) \/ TResize(c) \/ TOpen(c) \/ TWrite(c)
  \/ ODecode(c) \/ OOcr(c) \/ OWrite(c) \/ Finally(c) \/ Raise(c)

\* initial requests over a history of one screenshot and the coordinators
\* they spawn, each a process of its own that the system keeps running: a
\* spawned coordinator that can take a step eventually takes one (every
\* subprocess call of ocr-indexer.py carries a timeout)
InitLive == InitWith({"live"}, {NoIndex})
NextLive ==
  \/ Invoke
  \/ HList
  \/ HLoad("initial", NoLine)
  \/ HSpawn
  \/ HRespond
  \/ HExit
  \/ \E c \in Coords : Runs(c)
  \/ \E c \in Coords : Kill(c)
SpecLive == InitLive /\ [][NextLive]_vars /\ \A c \in Coords : WF_vars(Runs(c))

\* the two callers of load_ocr_cache, each up to the point where it has
\* loaded, over every kind of index file
InitFiles == InitWith({"files"}, IndexFiles)
NextFiles ==
  \/ Copy
  \/ Invoke
  \/ HList
  \/ \E kind \in {"initial", "search"} : HLoad(kind, NoLine)
  \/ HSpawn
  \/ HRespond
  \/ HExit
  \/ \E c \in Coords : ChkExists(c) \/ LockOpen(c) \/ LockWrite(c) \/ Load(c)
SpecFiles == InitFiles /\ [][NextFiles]_vars


(***************************************************************************)
(* Properties                                                              *)
(***************************************************************************)
\* c is between its acquire_lock and its release_lock
Holding(c) == pc[c] \in InTry \cup {"finally", "finally_exc"}
Probing == {"chk_exists", "chk_read", "chk_kill"}
\* c has listed nothing, called nothing, notified nothing, opened nothing
Untouched(c) ==
  /\ entries[c] = <<>> /\ scan[c] = "none"
  /\ calls[c] = NoCalls /\ notes[c] = <<>> /\ ~fd[c]
\* the keys of the index file, as a reader gets them
IndexKeys == DOMAIN load_ocr_cache(index)
ThumbFiles == {h \in DOMAIN thumbs : thumbs[h] # "absent"}
HashesOf(es) == {get_entry_hash(e) : e \in Range(es)}
\* no other coordinator process is alive
Alone(c) == \A d \in Coords \ {c} : pc[d] \notin Running

\* C1 (single-flight): at no time are two coordinators both between a
\* successful acquire_lock and their release_lock.
C1_SingleFlight ==
  \A c, d \in Coords : c # d => ~(Holding(c) /\ Holding(d))

\* C2: a coordinator that starts while the lock file names a live coordinator
\* (and goes on naming it while the newcomer probes) exits at once: its probe
\* steps lead to "aborted" only, it and they change no file, and it has listed
\* nothing, made no decode, resize or OCR call and sent no notification.
C2_LiveLockAborts ==
  /\ [](\A c \in Coords : pc[c] \in Probing \cup {"aborted"} => Untouched(c))
  /\ [][\A c \in Coords :
          /\ pc[c] = "aborted" => pc'[c] = "aborted"
          /\ ( /\ pc[c] \in Probing /\ pc'[c] # pc[c]
               /\ lock.exists /\ lock.pid \in Coords \ {c}
               /\ pc[lock.pid] \in Running
               /\ pc[c] = "chk_kill" => lockRead[c] = lock.pid )
             => /\ fsVars' = fsVars
                /\ \/ pc'[c] = "killed"
                   \/ pc[c] = "chk_exists" /\ pc'[c] = "chk_read"
                   \/ pc[c] = "chk_read" /\ pc'[c] = "chk_kill"
                        /\ lockRead'[c] = lock.pid
                   \/ pc[c] = "chk_kill" /\ pc'[c] = "aborted"]_vars

\* a second coordinator has exited at the lock of a first that is running
C2_Witness ==
  \E c, d \in Coords :
    /\ pc[c] = "aborted" /\ Holding(d)
    /\ lock.exists /\ lock.pid = d

\* C3 (stale-lock recovery): a coordinator whose probe finds that the pid in
\* the lock file no longer exists is not turned away: it unlinks the file,
\* creates it again, writes its own pid (the file then names it, unless
\* another process unlinked the file since) and enters its run.
C3_StaleLockReclaimed ==
  [][\A c \in Coords :
       (pc'[c] # pc[c] /\ pc'[c] # "killed") =>
          /\ ( pc[c] = "chk_kill" /\ lockRead[c] \in Coords
                 /\ pc[lockRead[c]] \notin Running )
               => pc'[c] = "chk_unlink"
          /\ pc[c] = "chk_unlink" => pc'[c] = "lock_open" /\ ~lock'.exists
          /\ pc[c] = "lock_open" => pc'[c] = "lock_write" /\ lock'.exists
          /\ pc[c] = "lock_write" =>
               /\ pc'[c] = "load"
               /\ fd[c] => lock' = [exists |-> TRUE, pid |-> c]]_vars

\* a coordinator has probed the lock left by a killed one and found it stale
C3_Witness ==
  \E c \in Coords :
    /\ pc[c] = "chk_unlink"
    /\ lock.exists /\ lock.pid \in Coords /\ pc[lock.pid] = "killed"

\* C4: a coordinator that held the lock leaves its run, unless it is killed,
\* only through the finally clause (normal completion, the "nothing to do"
\* exit, an exception), which removes the lock file; no lock file names a
\* coordinator that has ended this way.
C4_LockRemovedOnExit ==
  /\ [](\A c \in Coords :
          pc[c] \in {"done", "failed"} => ~(lock.exists /\ lock.pid = c))
  /\ [][\A c \in Coords :
          (Holding(c) /\ pc'[c] \notin InTry \cup {"finally", "finally_exc"}) =>
             \/ pc'[c] = "killed"
             \/ pc'[c] \in {"done", "failed"} /\ ~lock'.exists]_vars

\* one coordinator has ended normally and one with an exception
C4_Witness ==
  \E c, d \in Coords : pc[c] = "done" /\ pc[d] = "failed" /\ ~lock.exists

\* C5 (incremental persistence): when a coordinator is killed in its OCR
\* loop, the index file is a valid index holding every result the run had
\* completed (all of its in-memory index but the entry in flight).
C5_KillKeepsCompleted ==
  [][\A c \in Coords :
       (pc[c] \in {"o_decode", "o_ocr", "o_write"} /\ pc'[c] = "killed") =>
          /\ index.st \in {"absent", "ok"}
          /\ \A h \in DOMAIN ocr_cache[c] :
               (pc[c] = "o_write" => h # get_entry_hash(Head(ocr_needed[c])))
                 => h \in IndexKeys /\ index.m[h] = ocr_cache[c][h]]_vars

\* C6 (atomic index write): whenever a process reads the index file, the
\* file holds a complete index: the one before or the one after a save.
C6_ReadSeesCompleteIndex ==
  [][/\ (h_pc = "h_load" /\ h_pc' # "h_load") => index.st \in {"absent", "ok"}
     /\ \A c \in Coords :
          (pc[c] = "load" /\ pc'[c] = "list") => index.st \in {"absent", "ok"}]_vars

\* C7 (diff idempotence), as stated: once a run has completed over the
\* present history, a coordinator spawned afterwards makes no decode, resize
\* or OCR call while the history stays as it is.
C7_RerunIdleAsStated ==
  \A c \in Coords : after[c] # "none" => calls[c] = NoCalls

\* C7, amended: once a run has completed over the present history and left a
\* thumbnail file for every image of its listing and an index record for each
\* of its top OCR candidates, a coordinator spawned afterwards makes no decode,
\* resize or OCR call while the history and the cache files stay as they are.
C7_RerunIdle ==
  \A c \in Coords :
    after[c] = "settled" =>
      calls[c] = NoCalls /\ thumbs_needed[c] = <<>> /\ ocr_needed[c] = <<>>

\* the following run has found nothing to do for a listed, OCR-worthy image
C7_Witness ==
  \E c \in Coords :
    /\ after[c] = "settled" /\ pc[c] = "finally"
    /\ top_ocr_candidates(entries[c]) # <<>>

\* C8 (pruning): when a run has completed, every key of the index and every
\* thumbnail file belongs to an entry of that run's listing.  Stated for a run
\* that ends with no other coordinator alive and its listing still current.
C8_CachePrunedToScan ==
  \A c \in Coords :
    ( /\ pc[c] = "finally" /\ Alone(c)
      /\ scan[c] # "failed" /\ entries[c] = NewestFirst(history) ) =>
      /\ IndexKeys \subseteq HashesOf(entries[c])
      /\ ThumbFiles \subseteq HashesOf(entries[c])

C10_WipeEmptiesCache ==
  \A c \in Coords :
    (pc[c] = "finally" /\ scan[c] = "wiped" /\ wiped /\ Alone(c)) =>
      /\ calls[c] = NoCalls
      /\ IndexKeys = {} /\ ThumbFiles = {}

\* an image line whose width is below 100 or whose height is below 50
BelowOcrSize(l) ==
  /\ is_image(l)
  /\ \/ get_image_dimensions(l)[1] < MIN_IMAGE_WIDTH
     \/ get_image_dimensions(l)[2] < MIN_IMAGE_HEIGHT

\* C12: an image below the minimum OCR size (50x40) is never among a run's
\* OCR candidates and never has a record in an index, in memory or on disk;
\* yet the diff of a run that lists it while it has no thumbnail file makes
\* it a thumbnail candidate.
C12_SmallImageNoOcr ==
  /\ [](\A c \in Coords :
          /\ \A e \in Range(ocr_needed[c]) : ~BelowOcrSize(e)
          /\ \A l \in Lines :
               BelowOcrSize(l) =>
                  /\ get_entry_hash(l) \notin DOMAIN ocr_cache[c]
                  /\ get_entry_hash(l) \notin DOMAIN index.m
                  /\ get_entry_hash(l) \notin DOMAIN h_cache)
  /\ [][\A c \in Coords :
          (pc[c] = "diff" /\ pc'[c] \in {"t_decode", "o_decode", "finally"}) =>
             \A e \in Range(entries[c]) :
               ( BelowOcrSize(e)
                 /\ thumbs[get_entry_hash(e)] = "absent" )
                 => e \in Range(thumbs_needed'[c])]_vars

\* a run has stored the thumbnail of a small image and called the OCR engine
\* for another
C12_Witness ==
  \E c \in Coords : \E l \in Range(entries[c]) :
    /\ pc[c] = "finally" /\ calls[c].ocr > 0
    /\ BelowOcrSize(l)
    /\ thumbs[get_entry_hash(l)] = "raw"

\* C14: a run that loads the index while the file is whole holds every
\* record of the file, and no run submits to the decoder or the OCR engine,
\* for OCR, an entry whose hash has a record (with text or empty) in the
\* index it holds.
C14_RecordedNotReprocessed ==
  /\ [](\A c \in Coords :
          pc[c] \in {"o_decode", "o_ocr"} =>
             \A e \in Range(ocr_needed[c]) :
               get_entry_hash(e) \notin DOMAIN ocr_cache[c])
  /\ [][\A c \in Coords :
          (pc[c] = "load" /\ pc'[c] = "list") =>
             ( index.st = "ok" =>
                 \A h \in DOMAIN index.m :
                   h \in DOMAIN ocr_cache'[c] /\ ocr_cache'[c][h] = index.m[h] )]_vars

\* a run has found the record of a listed OCR candidate and made no OCR call
C14_Witness ==
  \E c \in Coords :
    /\ pc[c] = "finally" /\ calls[c].ocr = 0 /\ calls[c].decode = 0
    /\ \E e \in Range(top_ocr_candidates(entries[c])) :
         get_entry_hash(e) \in DOMAIN ocr_cache[c]

\* C15: when the OCR engine call of a candidate has failed or timed out, the
\* run holds no record for that hash to save.
C15_FailedOcrNoRecord ==
  \A c \in Coords :
    (pc[c] = "o_write" /\ ocr_out[c] = "failed") =>
      get_entry_hash(Head(ocr_needed[c])) \notin DOMAIN ocr_cache[c]

\* C17 (single writer): no step of the interactive handler changes the index
\* file or a thumbnail file.
C17_HandlerWritesNoCache ==
  [][hVars' # hVars => (index' = index /\ thumbs' = thumbs)]_vars

\* C18: while it answers an initial or search step the handler changes no
\* file and makes no decode, resize or OCR call; the OCR texts it holds are
\* those of the index file, a result's thumbnail is the entry's thumbnail
\* file if that exists and none otherwise, and a description is a fixed label
\* or the entry's OCR text.
C18_AnswerFromCacheOnly ==
  [][( /\ hVars' # hVars
       /\ h_in.kind \in {"none", "initial", "search"}
       /\ h_in'.kind \in {"none", "initial", "search"} )
     => /\ fsVars' = fsVars /\ calls' = calls
        /\ (h_pc = "h_load" /\ h_pc' # "h_load") =>
             \A e \in DOMAIN h_ocr_texts' :
               /\ get_entry_hash(e) \in IndexKeys
               /\ h_ocr_texts'[e] = index.m[get_entry_hash(e)]
        /\ (h_pc = "h_respond" /\ h_pc' = "h_done") =>
             \A i \in 1..Len(response'.results) :
               LET r == response'.results[i]
               IN r.id # EmptyId =>
                    /\ r.thumbnail =
                         IF is_image(r.id) /\ thumbs[get_entry_hash(r.id)] # "absent"
                         THEN get_entry_hash(r.id) ELSE NoThumb
                    /\ \/ r.description \in {<<"Image">>, <<"Text">>}
                       \/ /\ r.id \in DOMAIN h_ocr_texts
                          /\ r.description = h_ocr_texts[r.id]]_vars

\* an answer shows one image with its thumbnail and one image without
C18_Witness ==
  /\ h_pc = "h_done" /\ h_in.kind \in {"initial", "search"}
  /\ \E i, j \in 1..Len(response.results) :
       /\ response.results[i].thumbnail # NoThumb
       /\ is_image(response.results[j].id)
       /\ response.results[j].thumbnail = NoThumb

\* C11 (bounded OCR): a run makes at most MAX_IMAGES_TO_OCR = 20 OCR engine
\* calls, and has at most that many candidates, however many OCR-worthy
\* images the history holds and whatever the index holds.
C11_BoundedOcr ==
  \A c \in Coords :
    /\ calls[c].ocr <= MAX_IMAGES_TO_OCR
    /\ calls[c].ocr + Len(ocr_needed[c]) <=
         MAX_IMAGES_TO_OCR + (IF pc[c] = "o_write" THEN 1 ELSE 0)

\* a run over more than 20 OCR-worthy images has made its 20th OCR call and
\* is leaving
C11_Witness ==
  \E c \in Coords :
    /\ pc[c] = "finally"
    /\ calls[c].ocr = MAX_IMAGES_TO_OCR
    /\ Cardinality({e \in Range(entries[c]) : is_image(e) /\ is_image_worth_ocr(e)})
         > MAX_IMAGES_TO_OCR

\* C13: two lines of a listing with the same content have the same hash,
\* whatever their ids.
C13_HashByContent ==
  \A c \in Coords : \A a, b \in Range(entries[c]) :
    a.content = b.content => get_entry_hash(a) = get_entry_hash(b)

\* the index file is read and holds a JSON object of hash to text
HashToText(idx) ==
  /\ idx.st = "ok"
  /\ DOMAIN idx.m \subseteq Hashes

\* C16 (tolerant load): what a coordinator or the handler has loaded is the
\* empty map whenever the index file is missing, unreadable, not JSON or not
\* a hash-to-text mapping.
C16_TolerantLoad ==
  /\ \A c \in Coords :
       (pc[c] = "list" /\ ~HashToText(index)) => ocr_cache[c] = EmptyMap
  /\ (h_pc = "h_respond" /\ ~HashToText(index)) => h_ocr_texts = EmptyMap

\* the ways of laying the letters of q, in order, on letters of t
Embeddings(q, t) ==
  {p \in [1..Len(q) -> 1..Len(t)] :
     /\ \A i \in 1..Len(q) : t[p[i]] = q[i]
     /\ \A i \in 1..(Len(q) - 1) : p[i] < p[i + 1]}
IsSubsequence(q, t) == Embeddings(q, t) # {}
\* q occurs in t with at most gap letters between two consecutive letters of q
WithinGap(q, t, gap) ==
  \E p \in Embeddings(q, t) : \A i \in 1..(Len(q) - 1) : p[i + 1] - p[i] - 1 <= gap
IsSubstring(q, t) == WithinGap(q, t, 0)
\* the call under observation has returned b on q and t, letter case aside
Returned(b) == match_call.ret = b
FoldedQuery == LowerAll(match_call.query)
FoldedText == LowerAll(match_call.text)

\* C19 (gap-bounded matching): a query that fuzzy_match accepts and that is
\* not a substring of the text, letter case aside, has its letters in order
\* in the text with at most 5 letters between two consecutive ones.
C19_GapBounded ==
  (Returned("true") /\ ~IsSubstring(FoldedQuery, FoldedText))
    => WithinGap(FoldedQuery, FoldedText, 5)

\* C20: letter case aside, fuzzy_match returns true whenever the query is a
\* substring of the text or has its letters in order in it with gaps of at
\* most 5, and false whenever the letters of the query do not all occur in
\* order in the text.
C20_MatchAsStated ==
  ~Returned("none") =>
    /\ ( IsSubstring(FoldedQuery, FoldedText)
         \/ WithinGap(FoldedQuery, FoldedText, 5) ) => Returned("true")
    /\ ~IsSubsequence(FoldedQuery, FoldedText) => Returned("false")

\* "hw" has matched "Hello World"
C20_Witness ==
  match_call = [query |-> <<"h", "w">>,
                text |-> <<"H", "e", "l", "l", "o", " ", "W", "o", "r", "l", "d">>,
                ret |-> "true"]

\* c's process takes this step
Steps(c) ==
  \/ pc'[c] # pc[c]
  \/ thumbs_needed'[c] # thumbs_needed[c]
  \/ ocr_needed'[c] # ocr_needed[c]
\* c's step is a call of the decoder, the resizer, the OCR engine
Decodes(c) == calls'[c].decode = calls[c].decode + 1
Resizes(c) == calls'[c].resize = calls[c].resize + 1
Ocrs(c) == calls'[c].ocr = calls[c].ocr + 1
ThumbPhase == {"t_decode", "t_exists", "t_resize", "t_open", "t_write"}
OcrPhase == {"o_decode", "o_ocr", "o_write"}

\* C22 (notifications): a run that reaches its normal end has sent nothing,
\* or one "indexing N" followed by one "indexed N" with the same N.
C22_NotificationsPaired ==
  \A c \in Coords :
    pc[c] = "finally" =>
      \/ notes[c] = <<>>
      \/ /\ Len(notes[c]) = 2
         /\ notes[c][1].kind = "indexing"
         /\ notes[c][2] = [kind |-> "indexed", n |-> notes[c][1].n]

C24_SourceUnavailable ==
  /\ []( ( h_pc = "h_done" /\ h_in.kind \in {"initial", "search"}
           /\ h_entries = <<>> ) => response.results = <<EmptyState>> )
  /\ [][(h_pc = "h_list" /\ h_pc' # "h_list") =>
          /\ h_pc' = "h_load"
          /\ h_entries' \in {NewestFirst(history), <<>>}]_vars

\* the handler has answered with the empty state while the history holds a line
C24_Witness ==
  /\ h_pc = "h_done" /\ h_in.kind \in {"initial", "search"}
  /\ history # {} /\ h_entries = <<>>
  /\ response.results = <<EmptyState>>

\* C27 (thumbnail work): the thumbnail candidates of a run are the listed
\* images with no thumbnail file; the resizer is called for a candidate
\* exactly when its width or height exceeds 256; after a non-zero resizer
\* exit the decoded bytes are stored; and no step of a run changes a
\* thumbnail file that exists.
C27_ThumbnailWork ==
  [][\A c \in Coords :
      /\ (pc[c] = "diff" /\ pc'[c] \in {"t_decode", "o_decode", "finally"}) =>
           thumbs_needed'[c] =
             SelectSeqBy(entries[c],
                         {e \in Range(entries[c]) :
                            is_image(e) /\ thumbs[get_entry_hash(e)] = "absent"})
      /\ Resizes(c) =>
           \/ get_image_dimensions(Head(thumbs_needed[c]))[1] > MAX_THUMB_SIZE
           \/ get_image_dimensions(Head(thumbs_needed[c]))[2] > MAX_THUMB_SIZE
      /\ (pc[c] = "t_exists" /\ pc'[c] = "t_open") =>
           /\ get_image_dimensions(Head(thumbs_needed[c]))[1] <= MAX_THUMB_SIZE
           /\ get_image_dimensions(Head(thumbs_needed[c]))[2] <= MAX_THUMB_SIZE
      /\ (pc[c] = "t_write" /\ Steps(c) /\ pc'[c] \in InTry \cup {"finally"} /\ fd[c]) =>
           thumbs'[get_entry_hash(Head(thumbs_needed[c]))] = "raw"
      /\ Steps(c) =>
           \A h \in DOMAIN thumbs :
             thumbs[h] \in {"raw", "resized"} => thumbs'[h] = thumbs[h]]_vars

\* C28 (phase ordering): a run lists, calls the decoder, the resizer and the
\* OCR engine and writes cache files only between its acquire_lock and its
\* release_lock; it makes no OCR call before its thumbnail work is over,
\* has no thumbnail candidate left when it turns to OCR and does no
\* thumbnail work after; and it writes the index only in the step of an OCR
\* call and the one that follows it.
C28_PhaseOrdering ==
  /\ [](\A c \in Coords :
          /\ pc[c] \in ThumbPhase => calls[c].ocr = 0
          /\ pc[c] \in OcrPhase => thumbs_needed[c] = <<>>)
  /\ [][\A c \in Coords :
          Steps(c) =>
            /\ ( \/ Decodes(c) \/ Resizes(c) \/ Ocrs(c)
                 \/ entries'[c] # entries[c] /\ pc'[c] \in InTry
                 \/ index' # index \/ thumbs' # thumbs ) => pc[c] \in InTry
            /\ pc[c] \in OcrPhase => pc'[c] \notin ThumbPhase
            /\ pc[c] \in ThumbPhase => ~Ocrs(c)
            /\ index' # index => pc[c] \in {"o_ocr", "o_write"}
            /\ pc[c] = "o_write" => pc'[c] # "o_write"]_vars

\* a run has listed, stored a thumbnail, made an OCR call and saved the index
C28_Witness ==
  \E c \in Coords :
    /\ pc[c] = "finally" /\ calls[c].ocr > 0 /\ calls[c].decode >= 2
    /\ index.st = "ok" /\ index.m # EmptyMap
    /\ \E e \in Range(entries[c]) : thumbs[get_entry_hash(e)] \in {"raw", "resized"}

\* C26 (OCR work set): the OCR work set a run computes is the first
\* MAX_IMAGES_TO_OCR = 20, newest first, of the listed images that meet the
\* minimum size and have no record in the index the run loaded.
C26_WorkSetIsFirstUnprocessed ==
  [][\A c \in Coords :
      (pc[c] = "diff" /\ pc'[c] \in {"t_decode", "o_decode", "finally"}) =>
        ocr_needed'[c] =
          Take(SelectSeqBy(entries[c],
                           {e \in Range(entries[c]) :
                              /\ is_image(e)
                              /\ ~BelowOcrSize(e)
                              /\ get_entry_hash(e) \notin DOMAIN ocr_cache[c]}),
               MAX_IMAGES_TO_OCR)]_vars

\* the entry passes the type filter and the query, which matches its text
\* or, for an image, its OCR text
Wanted(e, rc) ==
  /\ rc.filter_type = "images" => is_image(e)
  /\ rc.filter_type = "text" => ~is_image(e)
  /\ \/ rc.query = <<>>
     \/ IsSubsequence(LowerAll(rc.query), LowerAll(e.content.text))
     \/ /\ is_image(e)
        /\ e \in DOMAIN rc.ocr_texts
        /\ rc.ocr_texts[e] # <<>>
        /\ IsSubsequence(LowerAll(rc.query), LowerAll(rc.ocr_texts[e]))
PlaceIn(es, e) == CHOOSE i \in 1..Len(es) : es[i] = e

\* C21: get_entry_results returns the single "No clipboard entries" item
\* when no entry passes the type filter and the query, and otherwise the
\* entries that pass, each once, in listing order, and no such item.
C21_ResultsAsStated ==
  results_call.done =>
    LET rc == results_call
        kept == {e \in Range(rc.entries) : Wanted(e, rc)}
    IN IF kept = {}
       THEN rc.ret = <<EmptyState>>
       ELSE /\ Len(rc.ret) = Cardinality(kept)
            /\ \A i \in 1..Len(rc.ret) : rc.ret[i].id \in kept
            /\ \A i, j \in 1..Len(rc.ret) :
                 i < j => PlaceIn(rc.entries, rc.ret[i].id) < PlaceIn(rc.entries, rc.ret[j].id)

\* the query "hw" has returned the "Hello World" line alone, out of a listing
\* that also holds an image
C21_Witness ==
  /\ results_call.done
  /\ results_call.query = <<"h", "w">>
  /\ Len(results_call.entries) >= 2
  /\ Len(results_call.ret) = 1 /\ results_call.ret[1].id = HelloLine

\* C25: the existence probe of a coordinator takes the lock to be held
\* exactly when a process with the pid it read exists.
C25_LiveIffProcessExists ==
  [][\A c \in Coords :
      (pc[c] = "chk_kill" /\ pc'[c] \in {"aborted", "chk_unlink"}) =>
        (pc'[c] = "aborted") = ProcessExists(lockRead[c])]_vars


\* the description an entry gets from the index the handler loaded before
\* the spawn
DescriptionAtSpawn(e) ==
  LET cache == load_ocr_cache(at_spawn.index)
      h == get_entry_hash(e)
  IN IF ~is_image(e) THEN <<"Text">>
     ELSE IF h \in DOMAIN cache /\ cache[h] # NoText THEN cache[h]
     ELSE <<"Image">>

\* a coordinator process is created only by the handler's spawn_ocr_indexer
\* call, which an initial step alone makes, and the handler at its response
\* can always print it, whatever the coordinators are doing
SpawnOnInitialNoWait ==
  /\ \A c \in Coords :
       (pc[c] = "idle" /\ pc'[c] # "idle") =>
         /\ h_pc = "h_spawn" /\ h_pc' = "h_respond"
         /\ h_in.kind = "initial"
         /\ h_ocr_texts' = h_ocr_texts /\ h_entries' = h_entries
  /\ h_in.kind \in {"search", "copy", "wipe", "delete"} => h_pc # "h_spawn"
  /\ h_pc = "h_respond" => ENABLED HRespond

\* the step that prints the response of an initial request
InitialResponse == h_pc = "h_respond" /\ h_pc' = "h_done" /\ h_in.kind = "initial"

C29_Terminates ==
  /\ \A c \in Coords : (pc[c] \in Running) ~> (pc[c] \in Ended)
  /\ \A c \in Coords : Holding(c) ~> (pc[c] \in {"done", "failed", "killed"})
  /\ [][\A c \in Coords :
          (Holding(c) /\ pc'[c] \in {"done", "failed"}) => ~lock'.exists]_vars
  /\ [](\A c \in Coords : pc[c] \in Running => ENABLED Runs(c))

\* a coordinator has completed and released the lock while another, started
\* by a handler that has not answered yet, is still running
C29_Witness ==
  /\ scene = "live"
  /\ h_pc = "h_respond"
  /\ \E c, d \in Coords : pc[c] = "done" /\ pc[d] \in Running

\* the entries a call of get_entry_results returned
ReturnedEntries == {results_call.ret[i].id : i \in 1..Len(results_call.ret)} \ {EmptyId}
\* the call's type filter lets the entry through
TypeAllows(e) ==
  /\ results_call.filter_type = "images" => is_image(e)
  /\ results_call.filter_type = "text" => ~is_image(e)
\* the call's query matches the text, as an ordered subsequence, case folded
QueryMatches(text) == IsSubsequence(LowerAll(results_call.query), LowerAll(text))
\* the entry is an image with a non-empty OCR text in the call's ocr_texts
HasOcrText(e) ==
  is_image(e) /\ e \in DOMAIN results_call.ocr_texts /\ results_call.ocr_texts[e] # <<>>

\* C31: under a non-empty query, an image with a non-empty cached OCR text
\* is returned exactly when the type filter allows it and the query matches
\* its display content or its OCR text; a text entry, and an image whose OCR
\* text is absent or empty, is returned exactly when the filter allows it and
\* the query matches its content.
C31_OcrTextInMatching ==
  (results_call.done /\ results_call.query # <<>>) =>
    \A e \in Range(results_call.entries) :
      (e \in ReturnedEntries) =
        ( /\ TypeAllows(e)
          /\ IF HasOcrText(e)
             THEN QueryMatches(e.content.text) \/ QueryMatches(results_call.ocr_texts[e])
             ELSE QueryMatches(e.content.text) )

\* the query "t" has returned an image for its OCR text alone, and not the
\* "Hello World" line listed with it
C31_Witness ==
  /\ results_call.done /\ results_call.query = <<"t">>
  /\ HasOcrText(Line(1)) /\ ~QueryMatches(Line(1).content.text)
  /\ Line(1) \in ReturnedEntries
  /\ HelloLine \in Range(results_call.entries) \ ReturnedEntries

\* C32: a lock file that names a running coordinator is deleted or
\* overwritten by no other process: when such a file changes or goes, the
\* step is one of the coordinator it names.
C32_LiveLockUntouched ==
  [][\A c \in Coords :
      (lock.exists /\ lock.pid = c /\ pc[c] \in Running /\ lock' # lock)
        => pc'[c] # pc[c]]_vars

\* no save of the index is under way, by the handler or by a coordinator,
\* and the file is a complete index
IndexAtRest ==
  /\ h_pc \notin {"h_save_open", "h_save_write"}
  /\ \A c \in Coords : pc[c] # "o_write"
  /\ index.st = "ok"

\* C33 (no lost update): an OCR record a coordinator has saved is in the
\* index after any interleaved delete action of the handler, unless it is
\* the record of the entry deleted.
C33_NoLostUpdate ==
  IndexAtRest => journal.persisted \subseteq DOMAIN index.m

\* C34: an OCR record or a thumbnail the handler has removed does not come
\* back on disk through a coordinator whose listing predates the removal
\* (no listing made since the removal shows the entry).
C34_RemovedStaysRemoved ==
  /\ IndexAtRest => journal.removed_ocr \cap DOMAIN index.m = {}
  /\ \A h \in journal.removed_thumbs : thumbs[h] = "absent"

\* C35 (thumbnail integrity): a thumbnail file that exists, and that no
\* coordinator is in the middle of writing, holds a complete artifact: the
\* decoded image or the output of a successful resize.
C35_ThumbnailComplete ==
  (\A c \in Coords : pc[c] # "t_write") =>
    \A h \in DOMAIN thumbs : thumbs[h] \in {"absent", "raw", "resized"}

\* c has made its listing, which failed or was empty, and has not ended
ListedNothing(c) ==
  /\ pc[c] \in (InTry \cup {"finally"}) \ {"load", "list"}
  /\ scan[c] = "failed" \/ entries[c] = <<>>

\* C36: a run whose history listing failed or was empty makes no decode,
\* resize or OCR call and sends no notification; its steps leave the index
\* file and the thumbnail files as they are; it goes from the work sets
\* straight to the finally clause, and ends (unless killed) with no lock
\* file left.
C36_EmptyListingRunIdle ==
  [][\A c \in Coords :
      ListedNothing(c) =>
        /\ calls[c] = NoCalls /\ notes[c] = <<>>
        /\ pc'[c] # pc[c] =>
             /\ index' = index /\ thumbs' = thumbs
             /\ calls'[c] = NoCalls /\ notes'[c] = <<>>
             /\ pc[c] = "diff" => pc'[c] \in {"finally", "finally_exc", "killed"}
             /\ pc[c] = "finally" => \/ pc'[c] = "killed"
                                     \/ pc'[c] = "done" /\ ~lock'.exists]_vars

\* a run whose listing failed, over a history that holds an image, has
\* reached its finally clause
C36_Witness ==
  \E c \in Coords :
    /\ pc[c] = "finally" /\ scan[c] = "failed" /\ entries[c] = <<>>
    /\ \E l \in history : is_image(l)

\* the size-qualifying images of a listing
Qualifying(es) == {e \in Range(es) : is_image(e) /\ ~BelowOcrSize(e)}

\* C37: when the decode of an OCR candidate fails, the step makes no OCR
\* call, adds no record to the coordinator's index, writes no file and does
\* not raise the count of indexed images; the "indexed N" notification
\* gives the number of OCR calls made; and a run that has listed such an
\* image among at most K size-qualifying ones, and loaded an index without
\* a record of it, takes it as an OCR candidate.
C37_FailedDecodeRetried ==
  /\ [][\A c \in Coords :
          /\ (pc[c] = "o_decode" /\ Decodes(c) /\ pc'[c] # "o_ocr") =>
               /\ ~Ocrs(c)
               /\ ocr_cache'[c] = ocr_cache[c]
               /\ get_entry_hash(Head(ocr_needed[c])) \notin DOMAIN ocr_cache'[c]
               /\ index' = index
               /\ ocr_count'[c] = ocr_count[c]
          /\ (pc[c] = "diff" /\ pc'[c] \in {"t_decode", "o_decode", "finally"}
                /\ Cardinality(Qualifying(entries[c])) <= MAX_IMAGES_TO_OCR) =>
               \A e \in Qualifying(entries[c]) :
                 get_entry_hash(e) \notin DOMAIN ocr_cache[c] => e \in Range(ocr_needed'[c])]_vars
  /\ [](\A c \in Coords :
          pc[c] = "finally" =>
            \A i \in 1..Len(notes[c]) :
              notes[c][i].kind = "indexed" => notes[c][i].n = calls[c].ocr)

\* a run at its normal end had one OCR candidate, made no OCR call and holds
\* no record of it
C37_Witness ==
  \E c \in Coords : \E e \in Range(entries[c]) :
    /\ pc[c] = "finally"
    /\ notes[c] = <<[kind |-> "indexing", n |-> 1]>>
    /\ is_image(e) /\ ~BelowOcrSize(e)
    /\ calls[c].ocr = 0
    /\ get_entry_hash(e) \notin DOMAIN ocr_cache[c]
====
